---------------------------- MODULE Spec2Model ----------------------------
(***************************************************************************)
(* Model of src/datafetch.py: the BLS point fetcher (fetch_series) and the *)
(* dataset merger (update_dataset) that rewrites data/bls_data.csv.        *)
(*                                                                         *)
(* Text is modelled as sequences of one-character strings, so that         *)
(* str.startswith, slicing, int() and float() are computed, not assumed.   *)
(* A float is held as an integer number of tenths (BLS publishes one       *)
(* decimal figure: "3.8" is 38).  A date datetime(y, m, 1) is <<y, m>>.    *)
(***************************************************************************)
EXTENDS Integers, Sequences, FiniteSets, TLC

VARIABLES
    store,       \* rows of data/bls_data.csv, in file order
    exists,      \* os.path.exists(DATA_PATH)
    runs,        \* number of update_dataset invocations so far
    status,      \* how the last invocation ended: "init", "done", "raised"
    err,         \* the exception that ended it ("none" when it completed)
    resps,       \* what the API answered to each series of the last invocation
    nfetched,    \* how many fetch_series calls of the last invocation returned
    all_rows,    \* all_rows of the last invocation (line 78), when it got to line 92
    prevStore,   \* the file before the last invocation
    prevExists,  \* whether the file existed before the last invocation
    used,        \* payload entries and failures the API has sent so far
    fpc,         \* position of a single fetch_series call: "idle", "called", "returned"
    freq,        \* the API answer that call receives
    fres         \* what the call produced

vars == <<store, exists, runs, status, err, resps, nfetched, all_rows,
          prevStore, prevExists, used, fpc, freq, fres>>

---------------------------------------------------------------------------
(* Bounds of the model *)

\* update_dataset invocations in one behaviour
MaxRuns == 2
\* payload entries plus failing series the API sends in one behaviour, an
\* invocation that gets the answers of the one before it not counted
MaxLoad == 2
\* entries of one payload handed to a single fetch_series call
MaxItems == 3

---------------------------------------------------------------------------
(* The series registry, lines 9-15.  A dict iterates in insertion order.   *)

SERIES == << "nonfarm_employment", "unemployment_rate",
             "labor_force_participation", "avg_hourly_earnings",
             "avg_weekly_hours" >>

\* A key of an earlier registry, still present in an old file.
StaleKey == "job_openings"

\* Python compares str by code point; these are the keys in that order.
StrOrder == << "avg_hourly_earnings", "avg_weekly_hours", "job_openings",
               "labor_force_participation", "nonfarm_employment",
               "unemployment_rate" >>

StrRank(s) == CHOOSE i \in DOMAIN StrOrder : StrOrder[i] = s

---------------------------------------------------------------------------
(* Python text primitives *)

DigitChars == << "0", "1", "2", "3", "4", "5", "6", "7", "8", "9" >>

IsDigit(c) == \E i \in DOMAIN DigitChars : DigitChars[i] = c

DigitVal(c) == (CHOOSE i \in DOMAIN DigitChars : DigitChars[i] = c) - 1

RECURSIVE DigitsValue(_)
DigitsValue(s) ==
    IF s = <<>> THEN 0
    ELSE 10 * DigitsValue(SubSeq(s, 1, Len(s) - 1)) + DigitVal(s[Len(s)])

\* int(s) for s over letters and digits: ValueError unless s is a
\* non-empty run of digits.
PyInt(s) ==
    IF Len(s) > 0 /\ \A i \in DOMAIN s : IsDigit(s[i])
    THEN [ok |-> TRUE, val |-> DigitsValue(s)]
    ELSE [ok |-> FALSE, val |-> 0]

DotPositions(s) == { i \in DOMAIN s : s[i] = "." }

\* float(s) for s over digits, "." and "-" with at most one fractional
\* digit: an optional sign, digits with at most one point, one digit at
\* least; anything else ("-", "", "3.8.1") is a ValueError.  val is in tenths.
PyFloat(s) ==
    LET neg  == Len(s) > 0 /\ s[1] = "-"
        body == IF neg THEN Tail(s) ELSE s
        dots == DotPositions(body)
        ok   == /\ \A i \in DOMAIN body : IsDigit(body[i]) \/ body[i] = "."
                /\ Cardinality(dots) <= 1
                /\ \E i \in DOMAIN body : IsDigit(body[i])
        p    == IF dots = {} THEN Len(body) + 1 ELSE CHOOSE i \in dots : TRUE
        ip   == DigitsValue(SubSeq(body, 1, p - 1))
        fp   == IF p + 1 <= Len(body) THEN DigitVal(body[p + 1]) ELSE 0
        mag  == 10 * ip + fp
    IN  IF ok THEN [ok |-> TRUE, val |-> IF neg THEN 0 - mag ELSE mag]
        ELSE [ok |-> FALSE, val |-> 0]

\* datetime(year, month, 1): ValueError outside 1..9999 and 1..12.
DatetimeOk(year, month) == year \in 1..9999 /\ month \in 1..12

---------------------------------------------------------------------------
(* JSON values of a payload entry: a string, null, or the field missing.   *)

JStr(s) == [t |-> "str", v |-> s]
JNull == [t |-> "null", v |-> <<>>]
JAbsent == [t |-> "absent", v |-> <<>>]

Item(p, y, v) == [period |-> p, year |-> y, value |-> v]

\* period.startswith("M"), line 50
StartsWithM(p) == Len(p) > 0 /\ p[1] = "M"

\* One pass of the loop body, lines 49-65: "continue" (lines 51, 53, 63),
\* "append" (line 65), or "raise" when a statement outside the inner try
\* raises, or float() raises something other than ValueError.
ProcessItem(item) ==
    LET skip  == [act |-> "continue", row |-> <<>>]
        raise == [act |-> "raise", row |-> <<>>]
    IN
    IF item.period.t = "absent" THEN raise            \* KeyError, line 49
    ELSE IF item.period.t = "null" THEN raise         \* AttributeError, line 50
    ELSE IF ~StartsWithM(item.period.v) THEN skip     \* line 51
    ELSE IF item.period.v = <<"M", "1", "3">> THEN skip   \* line 53
    ELSE IF item.year.t # "str" THEN raise            \* KeyError/TypeError, line 55
    ELSE LET y == PyInt(item.year.v)
             m == PyInt(Tail(item.period.v))
         IN
         IF ~y.ok THEN raise                          \* ValueError, line 55
         ELSE IF ~m.ok THEN raise                     \* ValueError, line 56
         ELSE IF ~DatetimeOk(y.val, m.val) THEN raise \* ValueError, line 58
         ELSE IF item.value.t = "absent" THEN raise   \* KeyError, line 61
         ELSE IF item.value.t = "null" THEN raise     \* TypeError, line 61
         ELSE LET f == PyFloat(item.value.v)
              IN IF ~f.ok THEN skip                   \* ValueError, line 63
                 ELSE [act |-> "append",
                       row |-> << <<y.val, m.val>>, f.val >>]

\* The for loop of lines 48-65 inside the try of line 44: an exception
\* leaves the loop for line 67 with the rows appended so far.
RECURSIVE FetchLoop(_, _, _)
FetchLoop(items, i, rows) ==
    IF i > Len(items) THEN rows
    ELSE LET r == ProcessItem(items[i])
         IN CASE r.act = "continue" -> FetchLoop(items, i + 1, rows)
              [] r.act = "append"   -> FetchLoop(items, i + 1, Append(rows, r.row))
              [] r.act = "raise"    -> rows

\* What the API answers: the request fails ("neterr"), the body is no JSON
\* ("badjson"), the JSON lacks Results/series/0/data ("nostruct"), or it
\* carries a list of entries ("data").
Resp(k, d) == [kind |-> k, data |-> d]

\* fetch_series, lines 28-70.  requests.post (line 39) and response.json()
\* (line 40) stand before the try, so their exceptions leave the function.
fetch_series(resp) ==
    CASE resp.kind = "neterr"   -> [raised |-> TRUE, exc |-> "ConnectionError", rows |-> <<>>]
      [] resp.kind = "badjson"  -> [raised |-> TRUE, exc |-> "JSONDecodeError", rows |-> <<>>]
      [] resp.kind = "nostruct" -> [raised |-> FALSE, exc |-> "none", rows |-> <<>>]
      [] resp.kind = "data"     -> [raised |-> FALSE, exc |-> "none",
                                    rows |-> FetchLoop(resp.data, 1, <<>>)]


---------------------------------------------------------------------------
(* The dataframe operations of update_dataset, lines 92-102.  A frame is   *)
(* the sequence of its rows; a row is [date, series, value].               *)

Row(d, k, v) == [date |-> d, series |-> k, value |-> v]

Key(r) == <<r.date, r.series>>

Keys(df) == { Key(df[i]) : i \in DOMAIN df }

\* The rows lines 85-90 append for one series.
SeriesRows(key, series_rows) ==
    [ i \in DOMAIN series_rows |->
        Row(series_rows[i][1], key, series_rows[i][2]) ]

DateLess(a, b) == a[1] < b[1] \/ (a[1] = b[1] /\ a[2] < b[2])

\* (date, series) of a is at most that of b, date first.
RowLE(a, b) ==
    \/ DateLess(a.date, b.date)
    \/ a.date = b.date /\ StrRank(a.series) <= StrRank(b.series)

\* Insert r behind every row that does not sort after it.
InsertRow(df, r) ==
    LET before == { i \in DOMAIN df : RowLE(df[i], r) }
        n      == Cardinality(before)
    IN  SubSeq(df, 1, n) \o <<r>> \o SubSeq(df, n + 1, Len(df))

RECURSIVE InsertionSort(_)
InsertionSort(df) ==
    IF df = <<>> THEN <<>>
    ELSE InsertRow(InsertionSort(SubSeq(df, 1, Len(df) - 1)), df[Len(df)])

\* A plausible slip: the sort columns given in the other order.
RowLESeriesFirst(a, b) ==
    \/ StrRank(a.series) < StrRank(b.series)
    \/ a.series = b.series /\ ~DateLess(b.date, a.date)

InsertRowSeriesFirst(df, r) ==
    LET n == Cardinality({ i \in DOMAIN df : RowLESeriesFirst(df[i], r) })
    IN  SubSeq(df, 1, n) \o <<r>> \o SubSeq(df, n + 1, Len(df))

RECURSIVE sort_values_series_first(_)
sort_values_series_first(df) ==
    IF df = <<>> THEN <<>>
    ELSE InsertRowSeriesFirst(sort_values_series_first(SubSeq(df, 1, Len(df) - 1)),
                              df[Len(df)])

\* df.sort_values(["date", "series"]), line 100: pandas sorts several
\* columns with a stable lexsort, so equal keys keep their order.
sort_values(df) == InsertionSort(df)

\* drop_duplicates(subset=["date", "series"]), line 97: keep="first" is the
\* default, so of the rows sharing a key the earliest in the frame stays.
drop_duplicates(df) ==
    LET kept == { i \in DOMAIN df :
                    \A j \in 1..(i - 1) : Key(df[j]) # Key(df[i]) }
        F[i \in 0..Len(df)] ==
            IF i = 0 THEN <<>>
            ELSE IF i \in kept THEN Append(F[i - 1], df[i]) ELSE F[i - 1]
    IN  F[Len(df)]

\* pd.concat([old, df]), line 97: the rows of old, then those of df.
concat(old, df) == old \o df

---------------------------------------------------------------------------
(* update_dataset, lines 77-104 *)

\* The series whose fetch_series call raises.
Raising(rs) == { i \in DOMAIN rs : fetch_series(rs[i]).raised }

\* all_rows after the first n series, lines 81-90.
RECURSIVE Collect(_, _)
Collect(rs, n) ==
    IF n = 0 THEN <<>>
    ELSE Collect(rs, n - 1) \o SeriesRows(SERIES[n], fetch_series(rs[n]).rows)

\* The whole call on answers rs, with the file holding old (when there is
\* one): where it stopped and what it left on disk.
update_dataset(rs, old, there) ==
    LET bad    == Raising(rs)
        first  == CHOOSE i \in bad : \A j \in bad : i <= j
        rows   == Collect(rs, Len(SERIES))
        merged == IF there THEN drop_duplicates(concat(old, rows)) ELSE rows
    IN
    IF bad # {}
    THEN \* the exception of line 83 leaves update_dataset: nothing is written
         [status |-> "raised", err |-> fetch_series(rs[first]).exc,
          nfetched |-> first - 1, all_rows |-> <<>>,
          store |-> old, exists |-> there]
    ELSE IF ~there /\ rows = <<>>
    THEN \* pd.DataFrame([]) has no columns: sort_values raises KeyError, line 100
         [status |-> "raised", err |-> "KeyError",
          nfetched |-> Len(SERIES), all_rows |-> rows,
          store |-> old, exists |-> there]
    ELSE [status |-> "done", err |-> "none",
          nfetched |-> Len(SERIES), all_rows |-> rows,
          store |-> sort_values(merged), exists |-> TRUE]

---------------------------------------------------------------------------
(* Inputs *)

SeqsUpTo(S, n) == UNION { [1..k -> S] : k \in 0..n }

M01 == <<"M", "0", "1">>
M02 == <<"M", "0", "2">>
M13 == <<"M", "1", "3">>
M14 == <<"M", "1", "4">>
A01 == <<"A", "0", "1">>
Y2020 == <<"2", "0", "2", "0">>
V38 == <<"3", ".", "8">>
V39 == <<"3", ".", "9">>
Dash == <<"-">>

\* Entries the API sends for a month: January with either figure (a
\* revision), and February.
RunItems ==
    { Item(JStr(M01), JStr(Y2020), JStr(V38)),
      Item(JStr(M01), JStr(Y2020), JStr(V39)),
      Item(JStr(M02), JStr(Y2020), JStr(V38)) }

Failures == { Resp("neterr", <<>>), Resp("badjson", <<>>), Resp("nostruct", <<>>) }

RunResponses ==
    Failures \cup { Resp("data", d) : d \in SeqsUpTo(RunItems, MaxLoad) }

\* What an answer counts for in MaxLoad.
Load(r) == IF r.kind = "data" THEN Len(r.data) ELSE 1

RECURSIVE TotalLoad(_)
TotalLoad(rs) == IF rs = <<>> THEN 0 ELSE Load(Head(rs)) + TotalLoad(Tail(rs))

\* The answers to series i..5 of one invocation, within the load left.
RECURSIVE Assign(_, _)
Assign(i, budget) ==
    IF i > Len(SERIES) THEN { <<>> }
    ELSE UNION { { <<r>> \o rest : rest \in Assign(i + 1, budget - Load(r)) } :
                 r \in { x \in RunResponses : Load(x) <= budget } }

\* The answers one invocation may get with budget left.
RunInputs(budget) == Assign(1, budget)

\* Files an earlier invocation left: nothing, or a sorted file with one row
\* per key, possibly with a key of an earlier registry.
PriorStores ==
    { <<>>,
      << Row(<<2020, 1>>, StaleKey, 70),
         Row(<<2020, 1>>, "unemployment_rate", 38) >> }

NoResps == [ i \in DOMAIN SERIES |-> Resp("data", <<>>) ]

NoResult == [raised |-> FALSE, exc |-> "none", rows |-> <<>>]

---------------------------------------------------------------------------
(* The batch job: repeated invocations of update_dataset *)

FetchIdle == fpc = "idle" /\ freq = Resp("data", <<>>) /\ fres = NoResult

Init ==
    /\ store \in PriorStores
    /\ exists = (store # <<>>)
    /\ runs = 0
    /\ status = "init"
    /\ err = "none"
    /\ resps = NoResps
    /\ nfetched = 0
    /\ all_rows = <<>>
    /\ prevStore = store
    /\ prevExists = exists
    /\ used = 0
    /\ FetchIdle

UpdateDataset ==
    /\ runs < MaxRuns
    /\ \E rs \in RunInputs(MaxLoad - used) \cup { resps } :
         LET out == update_dataset(rs, store, exists)
         IN  /\ resps' = rs
             /\ used' = IF rs = resps THEN used ELSE used + TotalLoad(rs)
             /\ status' = out.status
             /\ err' = out.err
             /\ nfetched' = out.nfetched
             /\ all_rows' = out.all_rows
             /\ store' = out.store
             /\ exists' = out.exists
    /\ prevStore' = store
    /\ prevExists' = exists
    /\ runs' = runs + 1
    /\ UNCHANGED <<fpc, freq, fres>>

Next == UpdateDataset

Spec == Init /\ [][Next]_vars


---------------------------------------------------------------------------
(* One call of fetch_series on its own, over a wider range of payloads     *)

\* "M01" .. "M13" from the month number
MonthCode(n) == << "M", DigitChars[(n \div 10) + 1], DigitChars[(n % 10) + 1] >>

FetchPeriods == { JStr(M01), JStr(M02), JStr(M13), JStr(M14), JStr(A01), JAbsent }

FetchValues == { JStr(V38), JStr(Dash), JNull, JAbsent }

FetchItems ==
    { Item(p, JStr(Y2020), v) : p \in FetchPeriods, v \in FetchValues }
    \cup { Item(JStr(M01), JAbsent, JStr(V38)) }

\* A year as the API sends it: the annual average M13, then M12 down to M01.
YearPayload == [ i \in 1..13 |-> Item(JStr(MonthCode(14 - i)), JStr(Y2020), JStr(V38)) ]

FetchResponses ==
    Failures \cup { Resp("data", d) : d \in SeqsUpTo(FetchItems, MaxItems) }
             \cup { Resp("data", YearPayload) }

InitFetch ==
    /\ store = <<>>
    /\ exists = FALSE
    /\ runs = 0
    /\ status = "init"
    /\ err = "none"
    /\ resps = NoResps
    /\ nfetched = 0
    /\ all_rows = <<>>
    /\ prevStore = <<>>
    /\ prevExists = FALSE
    /\ used = 0
    /\ fpc = "called"
    /\ freq \in FetchResponses
    /\ fres = NoResult

FetchSeries ==
    /\ fpc = "called"
    /\ fres' = fetch_series(freq)
    /\ fpc' = IF fres'.raised THEN "raised" ELSE "returned"
    /\ UNCHANGED <<store, exists, runs, status, err, resps, nfetched, all_rows,
                   prevStore, prevExists, used, freq>>

NextFetch == FetchSeries

SpecFetch == InitFetch /\ [][NextFetch]_vars

---------------------------------------------------------------------------
(* What the specification expects of a payload *)

\* A genuine calendar month code: "M" and two digits naming 01..12.
GenuineMonth(p) ==
    /\ p.t = "str"
    /\ Len(p.v) = 3
    /\ StartsWithM(p.v)
    /\ PyInt(Tail(p.v)).ok
    /\ PyInt(Tail(p.v)).val \in 1..12

YearOk(y) == y.t = "str" /\ PyInt(y.v).ok /\ PyInt(y.v).val \in 1..9999

ValueParses(v) == v.t = "str" /\ PyFloat(v.v).ok

\* The observations a payload should yield: one per entry of a genuine
\* month whose value is a number, in payload order.
RECURSIVE MonthlyObservations(_)
MonthlyObservations(items) ==
    IF items = <<>> THEN <<>>
    ELSE LET it   == items[Len(items)]
             rest == MonthlyObservations(SubSeq(items, 1, Len(items) - 1))
         IN  IF GenuineMonth(it.period) /\ YearOk(it.year) /\ ValueParses(it.value)
             THEN Append(rest, << <<PyInt(it.year.v).val, PyInt(Tail(it.period.v)).val>>,
                                  PyFloat(it.value.v).val >>)
             ELSE rest

\* The call has ended on a payload of entries.
FetchEnded == fpc # "called" /\ freq.kind = "data"

\* Every entry has a string period code, a year and a numeric value: only
\* the period codes differ from a clean payload.
OnlyPeriodsVary ==
    \A i \in DOMAIN freq.data :
        /\ freq.data[i].period.t = "str"
        /\ YearOk(freq.data[i].year)
        /\ ValueParses(freq.data[i].value)

\* Every entry is a clean monthly entry but for its value field.
OnlyValuesVary ==
    \A i \in DOMAIN freq.data :
        /\ GenuineMonth(freq.data[i].period)
        /\ YearOk(freq.data[i].year)

\* Processing of the series meets a failure inside the try of line 44.
HitsFailure ==
    \/ freq.kind = "nostruct"
    \/ /\ freq.kind = "data"
       /\ \E i \in DOMAIN freq.data : ProcessItem(freq.data[i]).act = "raise"

\* C6 (monthly filter): on a payload whose entries differ from clean ones
\* only in their period codes, fetch_series returns exactly one observation
\* per entry with a genuine month code M01..M12, and entries with any other
\* code are dropped without touching the others.
C6_MonthlyFilter ==
    (FetchEnded /\ OnlyPeriodsVary) =>
        (fpc = "returned" /\ fres.rows = MonthlyObservations(freq.data))

\* C7 (malformed value skipping): on a payload of monthly entries, an entry
\* whose value is a non-numeric string, null or absent is the only one
\* skipped; every other entry, before and after it, is returned.
C7_MalformedValueSkipped ==
    (FetchEnded /\ OnlyValuesVary) =>
        (fpc = "returned" /\ fres.rows = MonthlyObservations(freq.data))

\* C8 (a failed series contributes nothing): when processing a series meets
\* a failure (missing structure, an entry that raises), fetch_series returns
\* the empty sequence, also when entries were parsed before the failure.
C8_FailedSeriesEmpty ==
    (fpc = "returned" /\ HitsFailure) => fres.rows = <<>>

---------------------------------------------------------------------------
(* Properties of the batch job *)

Completed == status = "done"

Values(df, k) == { df[i].value : i \in { j \in DOMAIN df : Key(df[j]) = k } }

Count(df, r) == Cardinality({ i \in DOMAIN df : df[i] = r })

Failed(r) == r.kind \in { "neterr", "badjson", "nostruct" }

\* C1 (last write wins): after a completed run, a key present both in the
\* file before the run and in the rows fetched by the run carries the
\* fetched value in the file, not the one it had.
C1_LastWriteWins ==
    Completed =>
        \A k \in Keys(prevStore) \cap Keys(all_rows) :
            Cardinality(Values(all_rows, k)) = 1 =>
                Values(store, k) = Values(all_rows, k)

\* C2 (deduplication): after every completed run, first run included, the
\* file holds one row per identity key (date, series).
C2_Deduplicated ==
    Completed =>
        \A i, j \in DOMAIN store : Key(store[i]) = Key(store[j]) => i = j

\* C3 (partial failure isolation): when the fetch of one series fails in any
\* way and the others succeed, the run fetches every series, completes, and
\* the file holds a row for every observation of the series that succeeded.
C3_PartialFailureIsolation ==
    ( /\ status # "init"
      /\ Cardinality({ i \in DOMAIN resps : Failed(resps[i]) }) = 1 ) =>
        /\ Completed
        /\ nfetched = Len(SERIES)
        /\ \A i \in DOMAIN resps :
              ~Failed(resps[i]) =>
                  Keys(SeriesRows(SERIES[i], MonthlyObservations(resps[i].data)))
                      \subseteq Keys(store)

\* C4 (sort invariant): after every completed run, every adjacent pair of
\* rows of the file is in ascending order of (date, series), date first.
C4_SortInvariant ==
    Completed =>
        \A i \in 1..(Len(store) - 1) : RowLE(store[i], store[i + 1])

\* The run merged fetched rows that arrived out of order into an older file.
C4_Witness ==
    /\ Completed
    /\ prevExists
    /\ Len(store) > Len(prevStore)
    /\ \E i \in 1..(Len(all_rows) - 1) : ~RowLE(all_rows[i], all_rows[i + 1])

\* C5 (idempotence): a run that receives the same answers as the completed
\* run before it leaves the file as that run left it.
C5_Idempotent ==
    [][ (Completed /\ runs' = runs + 1 /\ resps' = resps) =>
            (status' = "done" /\ exists' /\ store' = store) ]_vars

\* C9 (missing file): with no file on disk, a run whose fetches all return
\* completes, whatever was fetched (nothing at all included), and writes a
\* file whose keys are those of the fetched observations.
C9_MissingStoreIsEmptyPrior ==
    ( /\ status # "init"
      /\ ~prevExists
      /\ Raising(resps) = {} ) =>
        /\ Completed
        /\ exists
        /\ Keys(store) = Keys(Collect(resps, Len(SERIES)))

\* C10 (retention): a completed run neither removes nor changes a row of
\* the file whose key was not fetched by the run, stale series keys
\* included, and the keys of the file afterwards are those before the run
\* together with those fetched.
C10_Retention ==
    Completed =>
        /\ \A i \in DOMAIN prevStore :
              Key(prevStore[i]) \notin Keys(all_rows) =>
                  Count(store, prevStore[i]) = Count(prevStore, prevStore[i])
        /\ Keys(store) = Keys(prevStore) \cup Keys(all_rows)

=============================================================================
